---- MODULE Spec2Model ----
(***************************************************************************)
(* Model of src/plugin.rs of bevy_prototype_lyon: the vertex constructors, *)
(* the system complete_shape_bundle and build_mesh.                        *)
(*                                                                         *)
(* f32 coordinates are modelled by small integers: the code only copies    *)
(* them.  The two lyon tessellators are an external library: a call to     *)
(* tessellate_path hands some points and indices to the BuffersBuilder and *)
(* returns Ok or Err, chosen from FillOutcomes or StrokeOutcomes.          *)
(***************************************************************************)
EXTENDS Integers, Sequences, FiniteSets, TLC

\* ------------------------------------------------------------------ bounds
NumEntities == 2      \* entities carrying a ShapeBundle
MaxCoord == 3         \* points of the vertex-constructor check: -MaxCoord..MaxCoord
MaxVerts == 2         \* vertices of a build_mesh input
MaxIdx == 3           \* indices of a build_mesh input

Entities == 1..NumEntities

\* ------------------------------------------------------------ vertex model
\* struct Vertex { position, normal, uv }
Vertex(position, normal, uv) ==
    [position |-> position, normal |-> normal, uv |-> uv]

\* impl FillVertexConstructor<Vertex> for VertexConstructor
FillNewVertex(vertex) ==
    Vertex(<<vertex.position.x, vertex.position.y, 0>>, <<0, 0, 1>>, <<0, 0>>)

\* a stroke constructor that keeps the default normal of a zeroed vertex
StrokeNewVertexFlat(vertex) ==
    Vertex(<<vertex.position.x, vertex.position.y, 0>>, <<0, 0, 0>>, <<0, 0>>)

\* impl StrokeVertexConstructor<Vertex> for VertexConstructor
StrokeNewVertex(vertex) ==
    Vertex(<<vertex.position.x, vertex.position.y, 0>>, <<0, 0, 1>>, <<0, 0>>)

\* lyon's FillVertex / StrokeVertex: what position() returns
TessVertex(x, y) == [position |-> [x |-> x, y |-> y]]

\* ------------------------------------------------------------- mesh model
\* VertexBuffers::new()
VertexBuffersNew == [vertices |-> <<>>, indices |-> <<>>]

\* Mesh::new(primitive_topology): no indices, no attributes
MeshNew(topology) ==
    [topology |-> topology, indices |-> <<>>, attributes |-> [n \in {} |-> <<>>]]

\* Mesh::set_indices(Some(Indices::U32(v)))
SetIndices(m, v) == [m EXCEPT !.indices = <<[tag |-> "U32", values |-> v]>>]

\* Mesh::set_attribute(name, values)
SetAttribute(m, name, values) ==
    [m EXCEPT !.attributes =
        [n \in (DOMAIN m.attributes) \cup {name} |->
            IF n = name THEN values ELSE m.attributes[n]]]

\* buffers.vertices.iter().map(|v| v.field).collect()
MapVertices(vs, field) ==
    [i \in 1..Len(vs) |->
        CASE field = "position" -> vs[i].position
          [] field = "normal" -> vs[i].normal
          [] OTHER -> vs[i].uv]

ATTRIBUTE_POSITION == "Vertex_Position"
ATTRIBUTE_NORMAL == "Vertex_Normal"
ATTRIBUTE_UV_0 == "Vertex_Uv"

\* a build_mesh that fills the normal attribute from the positions
build_mesh_positions_twice(b) ==
    LET m0 == MeshNew("TriangleList")
        m1 == SetIndices(m0, b.indices)
        m2 == SetAttribute(m1, ATTRIBUTE_POSITION, MapVertices(b.vertices, "position"))
        m3 == SetAttribute(m2, ATTRIBUTE_NORMAL, MapVertices(b.vertices, "position"))
        m4 == SetAttribute(m3, ATTRIBUTE_UV_0, MapVertices(b.vertices, "uv"))
    IN  m4

\* a build_mesh that writes the indices one-based
build_mesh_one_based(b) ==
    LET m0 == MeshNew("TriangleList")
        m1 == SetIndices(m0, [i \in 1..Len(b.indices) |-> b.indices[i] + 1])
        m2 == SetAttribute(m1, ATTRIBUTE_POSITION, MapVertices(b.vertices, "position"))
        m3 == SetAttribute(m2, ATTRIBUTE_NORMAL, MapVertices(b.vertices, "normal"))
        m4 == SetAttribute(m3, ATTRIBUTE_UV_0, MapVertices(b.vertices, "uv"))
    IN  m4

\* fn build_mesh(buffers: &VertexBuffers) -> Mesh
build_mesh(b) ==
    LET m0 == MeshNew("TriangleList")
        m1 == SetIndices(m0, b.indices)
        m2 == SetAttribute(m1, ATTRIBUTE_POSITION, MapVertices(b.vertices, "position"))
        m3 == SetAttribute(m2, ATTRIBUTE_NORMAL, MapVertices(b.vertices, "normal"))
        m4 == SetAttribute(m3, ATTRIBUTE_UV_0, MapVertices(b.vertices, "uv"))
    IN  m4

\* an add that hands back the handle of the mesh registered before
AssetsAddStale(assets, m) == [assets |-> Append(assets, m), handle |-> Len(assets)]

\* an add that hands out the handle of an equal mesh already stored
AssetsAddShared(assets, m) ==
    IF \E h \in 1..Len(assets) : assets[h] = m
    THEN [assets |-> assets, handle |-> CHOOSE h \in 1..Len(assets) : assets[h] = m]
    ELSE [assets |-> Append(assets, m), handle |-> Len(assets) + 1]

\* Assets<Mesh>::add: stores the mesh and returns a handle to it
AssetsAdd(assets, m) == [assets |-> Append(assets, m), handle |-> Len(assets) + 1]

\* Handle::<Mesh>::default(), the handle of a freshly spawned bundle
DefaultHandle == 0

\* ------------------------------------------------------- entity components
\* TessellationMode::Fill(FillOptions) | TessellationMode::Stroke(StrokeOptions)
FillOptionsSet == {"fill_default", "fill_fine"}
StrokeOptionsSet == {"stroke_default"}
TessellationModes ==
    [kind : {"Fill"}, options : FillOptionsSet]
        \cup [kind : {"Stroke"}, options : StrokeOptionsSet]

\* each entity owns its own Path component
PathOf(e) == [owner |-> e]

\* -------------------------------------------------- the external tessellators
\* What one tessellate_path call can do: the points it hands to the
\* BuffersBuilder, the indices it adds, and the Result it returns.  An Err may
\* leave geometry that was emitted before the failure.
Geometry(points, indices) == [points |-> points, indices |-> indices]
NoGeometry == Geometry(<<>>, <<>>)
Triangle == Geometry(<<TessVertex(0, 0), TessVertex(2, 0), TessVertex(1, 2)>>, <<0, 1, 2>>)
Quad ==
    Geometry(<<TessVertex(0, 0), TessVertex(2, 0), TessVertex(2, 1), TessVertex(0, 1)>>,
             <<0, 1, 2, 0, 2, 3>>)
Partial == Geometry(<<TessVertex(0, 0), TessVertex(2, 0)>>, <<>>)

\* the Fill engine: an empty path, a filled triangle, or a failure
FillOutcomes ==
    [result : {"Ok"}, geometry : {NoGeometry, Triangle}]
        \cup [result : {"Err"}, geometry : {NoGeometry, Partial}]

\* the Stroke engine: an empty path, a stroked segment, or a failure
StrokeOutcomes ==
    [result : {"Ok"}, geometry : {NoGeometry, Quad}]
        \cup [result : {"Err"}, geometry : {NoGeometry, Partial}]

\* BuffersBuilder::new(&mut buffers, VertexConstructor) driven by the Fill
\* engine: each point becomes a vertex through FillVertexConstructor
FillBuffersBuilder(b, g) ==
    [vertices |-> b.vertices \o [i \in 1..Len(g.points) |-> FillNewVertex(g.points[i])],
     indices |-> b.indices \o g.indices]

\* the same builder driven by the Stroke engine
StrokeBuffersBuilder(b, g) ==
    [vertices |-> b.vertices \o [i \in 1..Len(g.points) |-> StrokeNewVertex(g.points[i])],
     indices |-> b.indices \o g.indices]

\* ------------------------------------------------------------------- state
VARIABLES
    mode,         \* entity -> TessellationMode component
    path,         \* entity -> Path component
    mesh,         \* entity -> Handle<Mesh> component
    visible,      \* entity -> Visible.is_visible
    processed,    \* entity -> Processed.0
    meshes,       \* Assets<Mesh>: the registered meshes, handle h is meshes[h]
    fill_tess,    \* FillTessellator resource: tessellate_path calls in progress
    stroke_tess,  \* StrokeTessellator resource: tessellate_path calls in progress
    pc,           \* position of complete_shape_bundle
    todo,         \* entities the query iterator has not yet yielded in this pass
    cur,          \* the entity of the current loop iteration
    buffers,      \* the local VertexBuffers of the current iteration
    log,          \* diagnostics written by error!
    calls,        \* entity -> the tessellate_path calls made for it (history)
    spawned,      \* entity -> its visible/processed components as spawned (history)
    arg,          \* input of the pure-function specifications
    ret           \* their output

world == <<mode, path, mesh, visible, processed, meshes>>
engines == <<fill_tess, stroke_tess>>
system == <<pc, todo, cur, buffers, log, calls, spawned>>
pure == <<arg, ret>>
vars == <<mode, path, mesh, visible, processed, meshes, fill_tess, stroke_tess,
          pc, todo, cur, buffers, log, calls, spawned, arg, ret>>

\* a number for each kind of bundle: its mode, visibility and processed flag
BundleRank(m, v, p) ==
    LET modeRank == CASE m.options = "fill_default" -> 0
                      [] m.options = "fill_fine" -> 1
                      [] OTHER -> 2
    IN  4 * modeRank + 2 * (IF v THEN 1 ELSE 0) + (IF p THEN 1 ELSE 0)

\* ShapePlugin::build registers the two engines and the system; the bundles
\* are spawned by the user with any mode and any flags.  The query yields the
\* entities in any order, so every combination of bundles is listed once, with
\* the entities numbered by the rank of their bundle.
Init ==
    /\ mode \in [Entities -> TessellationModes]
    /\ path = [e \in Entities |-> PathOf(e)]
    /\ mesh = [e \in Entities |-> DefaultHandle]
    /\ visible \in [Entities -> BOOLEAN]
    /\ processed \in [Entities -> BOOLEAN]
    /\ \A e \in Entities \ {NumEntities} :
        BundleRank(mode[e], visible[e], processed[e])
            <= BundleRank(mode[e + 1], visible[e + 1], processed[e + 1])
    /\ meshes = <<>>
    /\ fill_tess = 0
    /\ stroke_tess = 0
    /\ pc = "idle"
    /\ todo = {}
    /\ cur = 0
    /\ buffers = VertexBuffersNew
    /\ log = <<>>
    /\ calls = [e \in Entities |-> <<>>]
    /\ spawned = [e \in Entities |-> [visible |-> visible[e], processed |-> processed[e]]]
    /\ arg = <<>>
    /\ ret = <<>>

\* ---------------------------------------------------- complete_shape_bundle
\* the scheduler runs the system once per tick
StartPass ==
    /\ pc = "idle"
    /\ todo' = Entities
    /\ pc' = "iter"
    /\ UNCHANGED <<world, engines, cur, buffers, log, calls, spawned, pure>>

\* a loop that starts the next entity while a tessellation is still running
CanDispatchConcurrent == pc \in {"iter", "fill_call", "stroke_call"}

\* the for loop handles one entity at a time
CanDispatch == pc = "iter"

\* a loop without the processed guard
ShouldSkipNever(e) == FALSE

\* a loop with the guard inverted
ShouldSkipInverted(e) == ~processed[e]

\* if processed.0 { continue; }
ShouldSkip(e) == processed[e]

SkipProcessed(e) ==
    /\ CanDispatch
    /\ e \in todo
    /\ ShouldSkip(e)
    /\ todo' = todo \ {e}
    /\ UNCHANGED <<world, engines, pc, cur, buffers, log, calls, spawned, pure>>

\* a match with its two arms swapped
EngineForSwapped(m) == IF m.kind = "Fill" THEN "Stroke" ELSE "Fill"

\* match tess_mode { Fill(..) => fill_tess, Stroke(..) => stroke_tess }
EngineFor(m) == m.kind

\* the path and options handed to tessellate_path
PathArg(e) == path[e]
OptionsArg(e) == mode[e].options

CallRecord(engine, e) ==
    [engine |-> engine, path |-> PathArg(e), options |-> OptionsArg(e),
     result |-> "Pending", buffers |-> VertexBuffersNew, emitted |-> NoGeometry]

\* a buffer pair declared once, outside the loop
LoopBuffersHoisted == buffers

\* let mut buffers = VertexBuffers::new(); inside the loop body
LoopBuffers == VertexBuffersNew

\* let mut buffers = VertexBuffers::new(); fill_tess.tessellate_path(..) entered
FillTessellateCall(e) ==
    /\ CanDispatch
    /\ e \in todo
    /\ ~ShouldSkip(e)
    /\ EngineFor(mode[e]) = "Fill"
    /\ cur' = e
    /\ buffers' = LoopBuffers
    /\ fill_tess' = fill_tess + 1
    /\ calls' = [calls EXCEPT ![e] = Append(@, CallRecord("Fill", e))]
    /\ pc' = "fill_call"
    /\ UNCHANGED <<world, stroke_tess, todo, log, spawned, pure>>

\* let mut buffers = VertexBuffers::new(); stroke_tess.tessellate_path(..) entered
StrokeTessellateCall(e) ==
    /\ CanDispatch
    /\ e \in todo
    /\ ~ShouldSkip(e)
    /\ EngineFor(mode[e]) = "Stroke"
    /\ cur' = e
    /\ buffers' = LoopBuffers
    /\ stroke_tess' = stroke_tess + 1
    /\ calls' = [calls EXCEPT ![e] = Append(@, CallRecord("Stroke", e))]
    /\ pc' = "stroke_call"
    /\ UNCHANGED <<world, fill_tess, todo, log, spawned, pure>>

\* an error arm that continues with the next entity
AfterTessellateContinue(result) == IF result = "Err" THEN "iter" ELSE "assign"

\* an error arm that returns from the system
AfterTessellateReturn(result) == IF result = "Err" THEN "idle" ELSE "assign"

\* a loop body that shows the entity without assigning a mesh
AfterTessellateNoMesh(result) == "visible"

\* where the system continues after the match, whatever the Result was
AfterTessellate(result) == "assign"

\* both arms logging under the Fill engine's name
DiagnosticsFillName(engine, e, result) ==
    IF result = "Err" THEN <<[engine |-> "Fill", entity |-> e]>> ELSE <<>>

\* if let Err(e) = .. { error!("FillTessellator error: {:?}", e); }
Diagnostics(engine, e, result) ==
    IF result = "Err" THEN <<[engine |-> engine, entity |-> e]>> ELSE <<>>

Finished(c, out, b) == [c EXCEPT !.result = out.result, !.buffers = b, !.emitted = out.geometry]

\* fill_tess.tessellate_path(..) returns
FillTessellateReturn ==
    /\ pc = "fill_call"
    /\ \E out \in FillOutcomes :
        LET b == FillBuffersBuilder(buffers, out.geometry) IN
        /\ buffers' = b
        /\ calls' = [calls EXCEPT ![cur] =
                        [@ EXCEPT ![Len(@)] = Finished(@, out, b)]]
        /\ log' = log \o Diagnostics("Fill", cur, out.result)
        /\ pc' = AfterTessellate(out.result)
    /\ fill_tess' = fill_tess - 1
    /\ UNCHANGED <<world, stroke_tess, todo, cur, spawned, pure>>

\* stroke_tess.tessellate_path(..) returns
StrokeTessellateReturn ==
    /\ pc = "stroke_call"
    /\ \E out \in StrokeOutcomes :
        LET b == StrokeBuffersBuilder(buffers, out.geometry) IN
        /\ buffers' = b
        /\ calls' = [calls EXCEPT ![cur] =
                        [@ EXCEPT ![Len(@)] = Finished(@, out, b)]]
        /\ log' = log \o Diagnostics("Stroke", cur, out.result)
        /\ pc' = AfterTessellate(out.result)
    /\ stroke_tess' = stroke_tess - 1
    /\ UNCHANGED <<world, fill_tess, todo, cur, spawned, pure>>

\* *mesh = meshes.add(build_mesh(&buffers));
AssignMesh ==
    /\ pc = "assign"
    /\ LET added == AssetsAdd(meshes, build_mesh(buffers)) IN
        /\ meshes' = added.assets
        /\ mesh' = [mesh EXCEPT ![cur] = added.handle]
    /\ pc' = "visible"
    /\ UNCHANGED <<mode, path, visible, processed, engines, todo, cur, buffers, log,
                   calls, spawned, pure>>

\* a visibility that follows the Result of the tessellation
IsVisibleValueOnSuccess == calls[cur][Len(calls[cur])].result = "Ok"

\* a loop body that leaves the visibility as it was
IsVisibleValueKept == visible[cur]

\* the value written by visible.is_visible = true;
IsVisibleValue == TRUE

\* visible.is_visible = true;
SetVisible ==
    /\ pc = "visible"
    /\ visible' = [visible EXCEPT ![cur] = IsVisibleValue]
    /\ pc' = "processed"
    /\ UNCHANGED <<mode, path, mesh, processed, meshes, engines, todo, cur, buffers,
                   log, calls, spawned, pure>>

\* a processed flag that is only set when the tessellation succeeded
ProcessedValueOnSuccess == calls[cur][Len(calls[cur])].result = "Ok"

\* the value written by *processed = Processed(true);
ProcessedValue == TRUE

\* *processed = Processed(true); and the loop goes on to the next entity
SetProcessed ==
    /\ pc = "processed"
    /\ processed' = [processed EXCEPT ![cur] = ProcessedValue]
    /\ todo' = todo \ {cur}
    /\ pc' = "iter"
    /\ UNCHANGED <<mode, path, mesh, visible, meshes, engines, cur, buffers, log,
                   calls, spawned, pure>>

\* query.iter_mut() is exhausted: the system returns
EndPass ==
    /\ pc = "iter"
    /\ todo = {}
    /\ pc' = "idle"
    /\ UNCHANGED <<world, engines, todo, cur, buffers, log, calls, spawned, pure>>

Next ==
    \/ StartPass
    \/ \E e \in Entities : SkipProcessed(e)
    \/ \E e \in Entities : FillTessellateCall(e)
    \/ \E e \in Entities : StrokeTessellateCall(e)
    \/ FillTessellateReturn
    \/ StrokeTessellateReturn
    \/ AssignMesh
    \/ SetVisible
    \/ SetProcessed
    \/ EndPass

Spec == Init /\ [][Next]_vars

\* ------------------------------------------- the pure functions on their own
\* the plugin at rest: what the pure-function specifications leave alone
Quiescent ==
    /\ mode = [e \in Entities |-> [kind |-> "Fill", options |-> "fill_default"]]
    /\ path = [e \in Entities |-> PathOf(e)]
    /\ mesh = [e \in Entities |-> DefaultHandle]
    /\ visible = [e \in Entities |-> FALSE]
    /\ processed = [e \in Entities |-> FALSE]
    /\ meshes = <<>>
    /\ fill_tess = 0
    /\ stroke_tess = 0
    /\ pc = "idle"
    /\ todo = {}
    /\ cur = 0
    /\ buffers = VertexBuffersNew
    /\ log = <<>>
    /\ calls = [e \in Entities |-> <<>>]
    /\ spawned = [e \in Entities |-> [visible |-> FALSE, processed |-> FALSE]]

Coords == (0 - MaxCoord)..MaxCoord
Points == {TessVertex(x, y) : x \in Coords, y \in Coords}

\* one point P; nothing constructed from it yet
InitVertex ==
    /\ Quiescent
    /\ arg \in Points
    /\ ret = [fill |-> <<>>, stroke |-> <<>>, fill_mesh |-> <<>>, stroke_mesh |-> <<>>]

\* the Fill engine emits P as the three corners of one triangle
FillConstruct ==
    /\ ret.fill = <<>>
    /\ ret' = [ret EXCEPT !.fill =
                <<FillBuffersBuilder(VertexBuffersNew, Geometry(<<arg>>, <<0, 0, 0>>))>>]
    /\ UNCHANGED <<world, engines, system, arg>>

\* the Stroke engine emits the same P
StrokeConstruct ==
    /\ ret.stroke = <<>>
    /\ ret' = [ret EXCEPT !.stroke =
                <<StrokeBuffersBuilder(VertexBuffersNew, Geometry(<<arg>>, <<0, 0, 0>>))>>]
    /\ UNCHANGED <<world, engines, system, arg>>

\* build_mesh on the Fill buffers
FillAssemble ==
    /\ ret.fill # <<>>
    /\ ret.fill_mesh = <<>>
    /\ ret' = [ret EXCEPT !.fill_mesh = <<build_mesh(ret.fill[1])>>]
    /\ UNCHANGED <<world, engines, system, arg>>

\* build_mesh on the Stroke buffers
StrokeAssemble ==
    /\ ret.stroke # <<>>
    /\ ret.stroke_mesh = <<>>
    /\ ret' = [ret EXCEPT !.stroke_mesh = <<build_mesh(ret.stroke[1])>>]
    /\ UNCHANGED <<world, engines, system, arg>>

NextVertex ==
    \/ FillConstruct
    \/ StrokeConstruct
    \/ FillAssemble
    \/ StrokeAssemble

SpecVertex == InitVertex /\ [][NextVertex]_vars

\* arbitrary vertices, not only those the constructors build
SampleVertices ==
    {Vertex(<<0, 0, 0>>, <<0, 0, 1>>, <<0, 0>>),
     Vertex(<<1, 2, 0>>, <<0, 1, 0>>, <<1, 0>>),
     Vertex(<<3, 4, 5>>, <<1, 0, 0>>, <<0, 1>>)}
SampleIndices == {0, 1, 7}

SeqsUpTo(S, n) == UNION {[1..k -> S] : k \in 0..n}

\* any VertexBuffers value within the bounds, the empty one included
InitMesh ==
    /\ Quiescent
    /\ arg \in [vertices : SeqsUpTo(SampleVertices, MaxVerts),
                indices : SeqsUpTo(SampleIndices, MaxIdx)]
    /\ ret = <<>>

BuildMesh ==
    /\ ret = <<>>
    /\ ret' = <<build_mesh(arg)>>
    /\ UNCHANGED <<world, engines, system, arg>>

NextMesh == BuildMesh

SpecMesh == InitMesh /\ [][NextMesh]_vars

\* ------------------------------------------------------------------ claims
InProgress == {"fill_call", "stroke_call", "assign", "visible", "processed"}

\* the loop is not in the middle of entity e's iteration
Done(e) == ~(cur = e /\ pc \in InProgress)

LastCall(e) == calls[e][Len(calls[e])]

Attempted(e, result) == calls[e] # <<>> /\ LastCall(e).result = result

\* e's handle refers to a registered mesh built from the buffers of its last call
HoldsOwnMesh(e) ==
    /\ calls[e] # <<>>
    /\ LastCall(e).result # "Pending"
    /\ LastCall(e).path = path[e]
    /\ mesh[e] \in 1..Len(meshes)
    /\ meshes[mesh[e]] = build_mesh(LastCall(e).buffers)
    /\ \A o \in Entities \ {e} : mesh[o] # mesh[e]

\* C1: over any sequence of passes an engine is invoked at most once for each
\* entity, and no step invokes an engine for an entity whose processed flag is
\* already true.
C1_AtMostOnce ==
    /\ [](\A e \in Entities : Len(calls[e]) <= 1)
    /\ [][\A e \in Entities : processed[e] => calls'[e] = calls[e]]_vars

\* a later pass has yielded again an entity that an earlier pass tessellated
C1_Witness ==
    /\ pc = "iter"
    /\ \A e \in Entities : Len(calls[e]) = 1
    /\ \E e \in todo : processed[e] /\ LastCall(e).result # "Pending"

\* C2 as stated: after a failed tessellation the entity's processed flag stays
\* false, its visibility and its mesh handle stay as they were.
C2_Original ==
    \A e \in Entities :
        Attempted(e, "Err") =>
            /\ ~processed[e]
            /\ visible[e] = spawned[e].visible
            /\ mesh[e] = DefaultHandle

\* C2 amended: a failed tessellation is only logged; once the entity's iteration
\* is over, a mesh built from what the failed call left in the buffers is
\* registered and assigned, and the entity is visible and processed, for good.
C2_Amended ==
    \A e \in Entities :
        (Attempted(e, "Err") /\ Done(e)) =>
            /\ processed[e]
            /\ visible[e]
            /\ HoldsOwnMesh(e)
            /\ \E i \in DOMAIN log : log[i].entity = e

\* a hidden entity whose tessellation failed half-way and that is shown anyway
C2_Witness ==
    \E e \in Entities :
        /\ Attempted(e, "Err")
        /\ Done(e)
        /\ ~spawned[e].visible
        /\ processed[e]
        /\ visible[e]
        /\ Len(LastCall(e).buffers.vertices) > 0

\* C3: once the iteration of an entity whose tessellation succeeded is over, a
\* mesh built from exactly the returned buffers is registered, the entity's
\* handle refers to it, and the entity is visible and processed.
C3_SuccessAssigns ==
    \A e \in Entities :
        (Attempted(e, "Ok") /\ Done(e)) =>
            /\ HoldsOwnMesh(e)
            /\ mesh[e] # DefaultHandle
            /\ visible[e]
            /\ processed[e]

\* a hidden entity was tessellated into a triangle after another mesh was added
C3_Witness ==
    \E e \in Entities :
        /\ Attempted(e, "Ok")
        /\ Done(e)
        /\ ~spawned[e].visible
        /\ mesh[e] = 2
        /\ Len(meshes[mesh[e]].attributes[ATTRIBUTE_POSITION]) = 3
        /\ meshes[1] # meshes[2]

\* C4: no step changes the handle, the visibility or the processed flag of an
\* entity that is already processed, calls an engine for it, or adds a mesh on
\* its behalf.
C4_ProcessedUntouched ==
    [][/\ \A e \in Entities :
            processed[e] =>
                /\ mesh'[e] = mesh[e]
                /\ visible'[e] = visible[e]
                /\ processed'[e] = processed[e]
                /\ calls'[e] = calls[e]
       /\ meshes' # meshes => ~processed[cur]
       /\ (fill_tess' > fill_tess \/ stroke_tess' > stroke_tess) => ~processed[cur']]_vars

\* a pass has gone past an entity spawned as processed and left it as spawned,
\* while it gave another entity a mesh
C4_Witness ==
    /\ pc = "iter"
    /\ Len(meshes) > 0
    /\ \E e \in Entities \ todo :
        /\ spawned[e].processed
        /\ processed[e]
        /\ visible[e] = spawned[e].visible
        /\ mesh[e] = DefaultHandle
        /\ calls[e] = <<>>

\* C5 as stated: an entity spawned hidden is visible only if its handle refers to
\* a mesh produced by a successful tessellation of its own path.
C5_Original ==
    \A e \in Entities :
        (~spawned[e].visible /\ visible[e]) => (HoldsOwnMesh(e) /\ Attempted(e, "Ok"))

\* C5 amended: an entity spawned hidden is visible only if the dispatch step has
\* already assigned it a mesh built from the buffers of the tessellation call on
\* its own path, whether that call succeeded or failed.
C5_Amended ==
    \A e \in Entities :
        (~spawned[e].visible /\ visible[e]) => HoldsOwnMesh(e)

\* inside a pass: visibility has just been written, processed not yet
C5_Witness ==
    /\ pc = "processed"
    /\ ~spawned[cur].visible
    /\ visible[cur]
    /\ ~processed[cur]

\* C6: every engine call made for an entity is on the engine its mode names, with
\* the entity's own path and options; an engine is busy only with an entity of
\* its own mode.
C6_ModeRouting ==
    /\ \A e \in Entities : \A i \in DOMAIN calls[e] :
        /\ calls[e][i].engine = mode[e].kind
        /\ calls[e][i].path = path[e]
        /\ calls[e][i].options = mode[e].options
    /\ fill_tess > 0 => mode[cur].kind = "Fill"
    /\ stroke_tess > 0 => mode[cur].kind = "Stroke"

\* a Fill entity with non-default options and a Stroke entity were both routed
C6_Witness ==
    \E f, k \in Entities :
        /\ mode[f] = [kind |-> "Fill", options |-> "fill_fine"]
        /\ mode[k].kind = "Stroke"
        /\ Attempted(f, "Ok")
        /\ Attempted(k, "Ok")

PassOutcome ==
    /\ todo = {}
    /\ \A e \in Entities :
        /\ ~spawned[e].processed => calls[e] # <<>>
        /\ Attempted(e, "Ok") => (HoldsOwnMesh(e) /\ visible[e] /\ processed[e])

\* C7: a pass only ends after the iterator has yielded every entity, whatever
\* failed; at its end every entity spawned unprocessed has been attempted and
\* every entity whose own tessellation succeeded has its mesh, is visible and is
\* processed.
C7_FailureIsolation ==
    [][(pc # "idle" /\ pc' = "idle") => PassOutcome']_vars

\* a pass ended in which one entity failed and the next one succeeded
C7_Witness ==
    /\ pc = "idle"
    /\ \E bad, good \in Entities :
        /\ Attempted(bad, "Err")
        /\ Attempted(good, "Ok")
        /\ mesh[bad] < mesh[good]
        /\ visible[good]
        /\ processed[good]

\* C8: build_mesh yields, for any buffers, a triangle-list mesh whose indices are
\* the buffers' indices and whose position, normal and uv arrays have one entry
\* per vertex, in vertex order.
C8_BuildMesh ==
    ret # <<>> =>
        LET m == ret[1]
            n == Len(arg.vertices)
        IN  /\ m.topology = "TriangleList"
            /\ m.indices = <<[tag |-> "U32", values |-> arg.indices]>>
            /\ DOMAIN m.attributes = {ATTRIBUTE_POSITION, ATTRIBUTE_NORMAL, ATTRIBUTE_UV_0}
            /\ Len(m.attributes[ATTRIBUTE_POSITION]) = n
            /\ Len(m.attributes[ATTRIBUTE_NORMAL]) = n
            /\ Len(m.attributes[ATTRIBUTE_UV_0]) = n
            /\ \A i \in 1..n :
                /\ m.attributes[ATTRIBUTE_POSITION][i] = arg.vertices[i].position
                /\ m.attributes[ATTRIBUTE_NORMAL][i] = arg.vertices[i].normal
                /\ m.attributes[ATTRIBUTE_UV_0][i] = arg.vertices[i].uv

\* a mesh was built from two different vertices and some indices
C8_Witness ==
    /\ ret # <<>>
    /\ Len(arg.vertices) = 2
    /\ arg.vertices[1] # arg.vertices[2]
    /\ Len(arg.indices) > 0

Flat(position, normal, uv) ==
    /\ position[3] = 0
    /\ normal = <<0, 0, 1>>
    /\ uv = <<0, 0>>

FlatMesh(m) ==
    \A i \in 1..Len(m.attributes[ATTRIBUTE_POSITION]) :
        Flat(m.attributes[ATTRIBUTE_POSITION][i], m.attributes[ATTRIBUTE_NORMAL][i],
             m.attributes[ATTRIBUTE_UV_0][i])

\* C9: the vertex built from a point P is (P.x, P.y, 0), (0, 0, 1), (0, 0) for
\* the fill and for the stroke constructor alike, and every vertex of the
\* buffers and meshes made from them is flat in the same way.
C9_VertexConstruction ==
    LET expected == Vertex(<<arg.position.x, arg.position.y, 0>>, <<0, 0, 1>>, <<0, 0>>) IN
    /\ ret.fill # <<>> => ret.fill[1].vertices = <<expected>>
    /\ ret.stroke # <<>> => ret.stroke[1].vertices = <<expected>>
    /\ (ret.fill # <<>> /\ ret.stroke # <<>>) => ret.fill[1].vertices = ret.stroke[1].vertices
    /\ ret.fill_mesh # <<>> => FlatMesh(ret.fill_mesh[1])
    /\ ret.stroke_mesh # <<>> => FlatMesh(ret.stroke_mesh[1])

\* both constructors and build_mesh ran on a point off both axes
C9_Witness ==
    /\ arg.position.x # 0
    /\ arg.position.y # 0
    /\ arg.position.x # arg.position.y
    /\ ret.fill_mesh # <<>>
    /\ ret.stroke_mesh # <<>>

Pending(engine) ==
    {e \in Entities : \E i \in DOMAIN calls[e] :
        calls[e][i].engine = engine /\ calls[e][i].result = "Pending"}

\* C10: at most one tessellate_path call is in progress on the Fill engine and at
\* most one on the Stroke engine.
C10_EngineExclusive ==
    /\ fill_tess \in {0, 1}
    /\ stroke_tess \in {0, 1}
    /\ Cardinality(Pending("Fill")) = fill_tess
    /\ Cardinality(Pending("Stroke")) = stroke_tess

\* a second Fill call is running after an earlier Fill call has returned
C10_Witness ==
    /\ fill_tess = 1
    /\ \E e \in Entities \ {cur} : calls[e] # <<>> /\ LastCall(e).engine = "Fill"

\* ---------------------------------------------- bundles spawned by default
\* every bundle as GeometryBuilder builds it: unprocessed and hidden
InitDefault ==
    /\ Init
    /\ visible = [e \in Entities |-> FALSE]
    /\ processed = [e \in Entities |-> FALSE]

\* the steps of a running pass: synchronous code that always goes on
PassStep ==
    \/ \E e \in Entities : SkipProcessed(e)
    \/ \E e \in Entities : FillTessellateCall(e)
    \/ \E e \in Entities : StrokeTessellateCall(e)
    \/ FillTessellateReturn
    \/ StrokeTessellateReturn
    \/ AssignMesh
    \/ SetVisible
    \/ SetProcessed
    \/ EndPass

SpecLive == InitDefault /\ [][Next]_vars /\ WF_vars(PassStep)

\* C11: no step takes an entity's processed flag or visibility flag from true
\* back to false; the processed flag changes only in the last write of the
\* entity's own iteration, from false to true, after its one engine call; an
\* entity is processed only if it was spawned so or the dispatch step made it so.
C11_ProcessedMonotonic ==
    /\ [](\A e \in Entities : processed[e] => (spawned[e].processed \/ calls[e] # <<>>))
    /\ [][\A e \in Entities :
            /\ processed[e] => processed'[e]
            /\ visible[e] => visible'[e]
            /\ processed'[e] # processed[e] =>
                (cur = e /\ pc = "processed" /\ Len(calls[e]) = 1)]_vars

\* a later pass has gone past an entity that an earlier pass marked processed
C11_Witness ==
    /\ pc = "iter"
    /\ \E e \in Entities \ todo :
        /\ ~spawned[e].processed
        /\ processed[e]
        /\ cur # e
        /\ \E o \in todo : processed[o] /\ ~spawned[o].processed

ValidIndices(indices, n) ==
    /\ Len(indices) % 3 = 0
    /\ \A i \in 1..Len(indices) : indices[i] < n

\* C12: the buffers handed to build_mesh and every registered mesh hold a
\* multiple of three indices, each below the number of vertices of the same call.
C12_IndexValidity ==
    /\ pc = "assign" => ValidIndices(buffers.indices, Len(buffers.vertices))
    /\ \A h \in 1..Len(meshes) :
        /\ Len(meshes[h].indices) = 1
        /\ ValidIndices(meshes[h].indices[1].values,
                        Len(meshes[h].attributes[ATTRIBUTE_POSITION]))

\* a stroked segment of four vertices and two triangles was registered
C12_Witness ==
    \E h \in 1..Len(meshes) :
        /\ Len(meshes[h].indices[1].values) = 6
        /\ Len(meshes[h].attributes[ATTRIBUTE_POSITION]) = 4

\* what the call recorded in c alone put through its builder
OwnBuffers(c) ==
    IF c.engine = "Fill"
    THEN FillBuffersBuilder(VertexBuffersNew, c.emitted)
    ELSE StrokeBuffersBuilder(VertexBuffersNew, c.emitted)

\* C13: every engine call starts on an empty buffer pair, the buffers it leaves
\* hold exactly what that call emitted, and the mesh of an entity is built from
\* the output of its own call only, whatever was tessellated before.
C13_NoGeometryLeak ==
    /\ pc \in {"fill_call", "stroke_call"} => buffers = VertexBuffersNew
    /\ \A e \in Entities : \A i \in DOMAIN calls[e] :
        calls[e][i].result # "Pending" => calls[e][i].buffers = OwnBuffers(calls[e][i])
    /\ \A e \in Entities :
        (calls[e] # <<>> /\ LastCall(e).result # "Pending" /\ Done(e)) =>
            /\ mesh[e] \in 1..Len(meshes)
            /\ meshes[mesh[e]] = build_mesh(OwnBuffers(LastCall(e)))

\* the second of two entities that both produced geometry holds only its own
C13_Witness ==
    \E first, second \in Entities :
        /\ mesh[first] = 1
        /\ mesh[second] = 2
        /\ Len(LastCall(first).emitted.points) > 0
        /\ Len(LastCall(second).emitted.points) > 0
        /\ LastCall(first).emitted # LastCall(second).emitted
        /\ Len(meshes[2].attributes[ATTRIBUTE_POSITION]) = Len(LastCall(second).emitted.points)

LogOf(e) == {i \in DOMAIN log : log[i].entity = e}

FailedCalls(e) == {i \in DOMAIN calls[e] : calls[e][i].result = "Err"}

\* C14: every failed call has written exactly one diagnostic, under the name of
\* the engine of the entity's mode; a successful call has written none; no
\* entity is attempted twice.
C14_ErrorReporting ==
    /\ \A e \in Entities : Cardinality(LogOf(e)) = Cardinality(FailedCalls(e))
    /\ \A i \in DOMAIN log : log[i].engine = mode[log[i].entity].kind
    /\ \A e \in Entities : Len(calls[e]) <= 1

\* one Stroke entity failed and was logged, another entity succeeded silently
C14_Witness ==
    /\ Len(log) = 1
    /\ log[1].engine = "Stroke"
    /\ \E e \in Entities : Attempted(e, "Ok") /\ Done(e)

HandleWritten(e) == mesh[e] \in 1..Len(meshes)

\* C15: for an entity spawned unprocessed and hidden, processed implies visible
\* and visible implies that the handle has been written; inside its iteration
\* the handle is written first, then the visibility, then the processed flag.
C15_WriteOrder ==
    \A e \in Entities :
        (~spawned[e].processed /\ ~spawned[e].visible) =>
            /\ processed[e] => visible[e]
            /\ visible[e] => HandleWritten(e)
            /\ (cur = e /\ pc = "visible") =>
                (HandleWritten(e) /\ ~visible[e] /\ ~processed[e])
            /\ (cur = e /\ pc = "processed") =>
                (HandleWritten(e) /\ visible[e] /\ ~processed[e])

\* between the first and the second write: handle written, still hidden
C15_Witness ==
    /\ pc = "visible"
    /\ ~spawned[cur].processed
    /\ ~spawned[cur].visible
    /\ HandleWritten(cur)
    /\ ~visible[cur]

\* the entities the dispatch step has marked processed
Marked == {e \in Entities : ~spawned[e].processed /\ processed[e]}

\* a mesh registered for the entity whose iteration is still running
BeingMarked == IF pc \in {"visible", "processed"} THEN 1 ELSE 0

\* C16: the meshes registered are one for each entity marked processed (and one
\* for the entity being marked), no two entities hold the same registered
\* handle, and a step taken when every entity is processed adds no mesh.
C16_OneMeshPerEntity ==
    /\ [](/\ Len(meshes) = Cardinality(Marked) + BeingMarked
          /\ \A e \in Entities : mesh[e] # DefaultHandle => HandleWritten(e)
          /\ \A e, o \in Entities :
                (e # o /\ mesh[e] # DefaultHandle) => mesh[e] # mesh[o])
    /\ [][(\A e \in Entities : processed[e]) => meshes' = meshes]_vars

\* two entities with equal geometry hold two different registered meshes
C16_Witness ==
    /\ pc = "idle"
    /\ Len(meshes) = 2
    /\ meshes[1] = meshes[2]
    /\ Len(meshes[1].attributes[ATTRIBUTE_POSITION]) > 0
    /\ \E e, o \in Entities : mesh[e] = 1 /\ mesh[o] = 2

====
